---- MODULE Spec2Model ----
(***************************************************************************)
(* Model of the graph pipeline of                                          *)
(*   src/Comparison Models /Graph Based/GCN/gcn.py                         *)
(* nx_to_pyg_data and the standardisation step (SpecEncode), then          *)
(* split_data -> train_model -> evaluate_model (Spec, FairSpec), and       *)
(* train_model called on arbitrary split index tensors (SpecTrain).        *)
(***************************************************************************)
EXTENDS Integers, Sequences, FiniteSets, TLC

VARIABLES
    pc,             \* position in the script / current function
    err,            \* "none" or the exception that aborted the run
    \* ---- nx_to_pyg_data and standardisation ----
    graph,          \* the networkx graph: nodes (in enumeration order), attrs, edges
    node_features,  \* list of 5-element rows
    node_labels,    \* list of labels
    node_mapping,   \* dict node name -> row
    edge_index,     \* list of [row, row] pairs
    data_x,         \* data.x
    data_y,         \* data.y
    \* ---- split_data ----
    num_nodes,      \* data.num_nodes
    train_ratio, val_ratio,
    train_idx, val_idx, test_idx,
    \* ---- train_model ----
    epochs,         \* the epochs argument
    epoch,          \* loop variable of "for epoch in range(epochs)"
    training,       \* model.training (set by model.train() / model.eval())
    params,         \* number of optimizer.step() calls applied to the parameters
    sched,          \* number of scheduler.step() calls
    output,         \* the forward pass held in the local variable "output"
    grad,           \* what loss.backward() accumulated into the gradients
    val_loss,       \* the forward pass the last val_loss was computed from
    log,            \* one entry per printed epoch line
    \* ---- evaluate_model ----
    predictions, true_values, metrics

vars == <<pc, err, graph, node_features, node_labels, node_mapping, edge_index,
          data_x, data_y, num_nodes, train_ratio, val_ratio, train_idx, val_idx,
          test_idx, epochs, epoch, training, params, sched, output, grad,
          val_loss, log, predictions, true_values, metrics>>

encodeVars == <<graph, node_features, node_labels, node_mapping, edge_index,
                data_x, data_y>>
splitVars == <<num_nodes, train_ratio, val_ratio, train_idx, val_idx, test_idx>>
trainVars == <<epochs, epoch, training, params, sched, output, grad, val_loss, log>>
evalVars == <<predictions, true_values, metrics>>

\* ---- bounds ----
MaxN == 10          \* largest node count handed to split_data
MaxEpochs == 2      \* largest epochs argument
MaxNodes == 2       \* largest graph handed to nx_to_pyg_data
MaxEdges == 1       \* most edges of such a graph
MaxTrainN == 3      \* largest node count when train_model is called directly

None == "none"

Range(s) == {s[k] : k \in 1..Len(s)}
Min(a, b) == IF a <= b THEN a ELSE b

(***************************************************************************)
(* IEEE-754 binary64 arithmetic, as far as split_data uses it.  A float is *)
(* [neg, m, e]: a sign, a significand m of at most 53 bits and the         *)
(* exponent e of its last bit, so the value is (+/-) m * 2^e.  A           *)
(* significand is a natural number written in base 2^15, most significant  *)
(* digit first, without leading zero digits; zero is <<>>.                 *)
(***************************************************************************)
Precision == 53
DigitBits == 15
Base == 32768
DivDigits == 5      \* base-2^15 fraction digits produced by a division

RECURSIVE Pow2(_)
Pow2(k) == IF k = 0 THEN 1 ELSE 2 * Pow2(k - 1)

RECURSIVE BitLen(_)
BitLen(d) == IF d = 0 THEN 0 ELSE 1 + BitLen(d \div 2)

RECURSIVE Strip(_)
Strip(m) == IF m # <<>> /\ m[1] = 0 THEN Strip(Tail(m)) ELSE m

Bits(m) == IF m = <<>> THEN 0 ELSE DigitBits * (Len(m) - 1) + BitLen(m[1])

RECURSIVE MulAcc(_, _, _, _)
MulAcc(m, i, carry, k) ==
    IF i = 0 THEN (IF carry = 0 THEN <<>> ELSE <<carry>>)
    ELSE LET t == m[i] * k + carry
         IN  MulAcc(m, i - 1, t \div Base, k) \o <<t % Base>>

\* m * k + c for a significand m and naturals k, c below 2^15
MulAdd(m, k, c) == Strip(MulAcc(m, Len(m), c, k))

RECURSIVE DivAcc(_, _, _, _)
DivAcc(m, i, rem, d) ==
    IF i > Len(m) THEN [q |-> <<>>, r |-> rem]
    ELSE LET t    == rem * Base + m[i]
             rest == DivAcc(m, i + 1, t % d, d)
         IN  [q |-> <<t \div d>> \o rest.q, r |-> rest.r]

\* m shifted right by s bits: the quotient, and whether a one was shifted out
ShiftRight(m, s) ==
    LET drop == Min(s \div DigitBits, Len(m))
        kept == SubSeq(m, 1, Len(m) - drop)
        d    == DivAcc(kept, 1, 0, Pow2(s % DigitBits))
    IN  [q |-> Strip(d.q),
         lost |-> d.r # 0 \/ \E k \in (Len(m) - drop + 1)..Len(m) : m[k] # 0]

Low(m) == IF m = <<>> THEN 0 ELSE m[Len(m)]

\* a significand that is small enough, as a number
RECURSIVE ToNat(_)
ToNat(m) == IF m = <<>> THEN 0 ELSE Base * ToNat(SubSeq(m, 1, Len(m) - 1)) + m[Len(m)]

\* round the exact value m * 2^e (plus something below the last bit when
\* sticky) to 53 significant bits, ties to even
Round53(neg, m, sticky, e) ==
    IF Bits(m) <= Precision THEN [neg |-> neg, m |-> m, e |-> e]
    ELSE LET s     == Bits(m) - Precision
             g     == ShiftRight(m, s - 1)
             top   == ShiftRight(g.q, 1).q
             guard == Low(g.q) % 2 = 1
             up    == guard /\ (g.lost \/ sticky \/ Low(top) % 2 = 1)
         IN  [neg |-> neg, m |-> IF up THEN MulAdd(top, 1, 1) ELSE top, e |-> e + s]

\* the exact value of 1 - r for a float 0 < r < 1, before rounding
OneMinusExact(r) ==
    LET w     == 0 - r.e
        n     == (w + DigitBits - 1) \div DigitBits
        unit  == MulAdd(r.m, Pow2(DigitBits * n - w), 0)
        wide  == [k \in 1..n |-> IF k <= n - Len(unit) THEN 0 ELSE unit[k - (n - Len(unit))]]
        compl == [k \in 1..n |-> Base - 1 - wide[k]]
    IN  [neg |-> FALSE, m |-> MulAdd(compl, 1, 1), e |-> 0 - DigitBits * n]

\* 1 - r for a float 0 < r < 1
OneMinus(r) == LET d == OneMinusExact(r) IN Round53(d.neg, d.m, FALSE, d.e)

\* m shifted left by s bits
ShiftLeft(m, s) ==
    IF m = <<>> THEN <<>>
    ELSE MulAdd(m, Pow2(s % DigitBits), 0) \o [k \in 1..(s \div DigitBits) |-> 0]

\* a < b for significands
BigLT(a, b) ==
    \/ Len(a) < Len(b)
    \/ /\ Len(a) = Len(b)
       /\ \E k \in 1..Len(a) : a[k] < b[k] /\ \A j \in 1..(k - 1) : a[j] = b[j]

\* x < y for floats x, y >= 0
FloatLT(x, y) ==
    LET e == Min(x.e, y.e)
    IN  BigLT(ShiftLeft(x.m, x.e - e), ShiftLeft(y.m, y.e - e))

\* x * k for a float x and an int 0 <= k < 2^15
MulInt(x, k) == Round53(x.neg, MulAdd(x.m, k, 0), FALSE, x.e)

RECURSIVE FracDigits(_, _, _)
FracDigits(rem, c, k) ==
    IF k = 0 THEN [q |-> <<>>, r |-> rem]
    ELSE LET rest == FracDigits((rem * Base) % c, c, k - 1)
         IN  [q |-> <<(rem * Base) \div c>> \o rest.q, r |-> rest.r]

\* a / c for ints a and 0 < c < 2^15
DivInt(a, c) ==
    LET n == IF a < 0 THEN 0 - a ELSE a
        f == FracDigits(n % c, c, DivDigits)
    IN  Round53(a < 0, Strip(<<n \div c>> \o f.q), f.r # 0, 0 - DigitBits * DivDigits)

\* the integer part of |x| and whether |x| has a fraction
IntPart(x) ==
    IF x.e >= 0 THEN ToNat(x.m) * Pow2(x.e) ELSE ToNat(ShiftRight(x.m, 0 - x.e).q)

HasFrac(x) == x.e < 0 /\ ShiftRight(x.m, 0 - x.e).lost

\* math.ceil and int() of a float
Ceil(x) == IF x.neg THEN 0 - IntPart(x) ELSE IntPart(x) + (IF HasFrac(x) THEN 1 ELSE 0)
Trunc(x) == IF x.neg THEN 0 - IntPart(x) ELSE IntPart(x)

FloatLE0(x) == x.neg \/ x.m = <<>>
FloatGE1(x) == ~x.neg /\ IntPart(x) >= 1

RECURSIVE HexNat(_)
HexNat(h) == IF h = <<>> THEN <<>> ELSE MulAdd(HexNat(SubSeq(h, 1, Len(h) - 1)), 16, h[Len(h)])

\* float literals: the 53-bit significand in hexadecimal and the exponent
Lit(h, e) == [neg |-> FALSE, m |-> HexNat(h), e |-> e]
F0_7  == Lit(<<1,6,6,6,6,6,6,6,6,6,6,6,6,6>>, 0 - 53)
F0_15 == Lit(<<1,3,3,3,3,3,3,3,3,3,3,3,3,3>>, 0 - 55)
F0_5  == Lit(<<1,0,0,0,0,0,0,0,0,0,0,0,0,0>>, 0 - 53)
F0_25 == Lit(<<1,0,0,0,0,0,0,0,0,0,0,0,0,0>>, 0 - 54)

(***************************************************************************)
(* split_data                                                              *)
(***************************************************************************)
\* numpy.random.RandomState(42).permutation(n), n = 1, 2, ...: the shuffle
\* that random_state=42 fixes in train_test_split
Perm42 == <<
    <<0>>,
    <<1, 0>>,
    <<0, 1, 2>>,
    <<1, 3, 0, 2>>,
    <<1, 4, 2, 0, 3>>,
    <<0, 1, 5, 2, 4, 3>>,
    <<0, 1, 5, 2, 4, 3, 6>>,
    <<1, 5, 0, 7, 2, 4, 3, 6>>,
    <<7, 1, 5, 0, 8, 2, 4, 3, 6>>,
    <<8, 1, 5, 0, 7, 2, 9, 4, 3, 6>>,
    <<5, 0, 9, 10, 2, 1, 8, 4, 7, 3, 6>>,
    <<10, 9, 0, 8, 5, 2, 1, 11, 4, 7, 3, 6>>,
    <<11, 9, 0, 8, 5, 2, 1, 12, 4, 7, 10, 3, 6>> >>

\* np.arange(k)
Arange(k) == [i \in 1..k |-> i - 1]

\* sklearn.model_selection.train_test_split(arr, test_size=ts, random_state=42)
\* for a float ts: the (train, test) pair, or the ValueError it raises
TrainTestSplit(arr, ts) ==
    LET n_samples == Len(arr)
        n_test    == Ceil(MulInt(ts, n_samples))
        n_train   == n_samples - n_test
        perm      == Perm42[n_samples]
    IN  IF FloatLE0(ts) \/ FloatGE1(ts)
        THEN [error |-> "ValueError: test_size out of range"]
        ELSE IF n_train = 0
        THEN [error |-> "ValueError: train set will be empty"]
        ELSE [error |-> None,
              train |-> [k \in 1..n_train |-> arr[perm[n_test + k] + 1]],
              test  |-> [k \in 1..n_test |-> arr[perm[k] + 1]]]

\* int(val_ratio * len(indices))
ValCount(vr, n) == Trunc(MulInt(vr, n))

\* the (train_ratio, val_ratio) arguments: the defaults of split_data, an
\* exactly representable pair, and a pair whose ratios sum to 1
RatioPairs == {<<F0_7, F0_15>>, <<F0_5, F0_25>>, <<F0_5, F0_5>>}

\* lines 55-58: indices and the first train_test_split
SplitFirst ==
    /\ pc = "split_data"
    /\ LET r == TrainTestSplit(Arange(num_nodes), OneMinus(train_ratio))
       IN  IF r.error # None
           THEN /\ err' = r.error
                /\ pc' = "aborted"
                /\ UNCHANGED <<train_idx, test_idx>>
           ELSE /\ train_idx' = r.train
                /\ test_idx' = r.test
                /\ pc' = "split_val"
                /\ err' = err
    /\ UNCHANGED <<num_nodes, train_ratio, val_ratio, val_idx>>
    /\ UNCHANGED <<encodeVars, trainVars, evalVars>>

\* lines 59-65: the second train_test_split, the return and the assignment
\* to data.train_idx, data.val_idx, data.test_idx
SplitSecond ==
    /\ pc = "split_val"
    /\ LET ts == DivInt(Len(test_idx) - ValCount(val_ratio, num_nodes), Len(test_idx))
           r  == TrainTestSplit(test_idx, ts)
       IN  IF r.error # None
           THEN /\ err' = r.error
                /\ pc' = "aborted"
                /\ UNCHANGED <<val_idx, test_idx>>
           ELSE /\ val_idx' = r.train
                /\ test_idx' = r.test
                /\ pc' = "train_model"
                /\ err' = err
    /\ UNCHANGED <<num_nodes, train_ratio, val_ratio, train_idx>>
    /\ UNCHANGED <<encodeVars, trainVars, evalVars>>

(***************************************************************************)
(* train_model.  The numbers are not modelled: the parameters are the      *)
(* count of optimizer steps applied to them, a forward pass is the         *)
(* parameters and the mode it was computed with, a loss is the forward     *)
(* pass and the rows it was taken over.                                    *)
(***************************************************************************)
\* no forward pass yet, no loss yet
NoPass == [params |-> 0 - 1, training |-> FALSE]
NoLoss == [loss |-> None, rows |-> <<>>, of |-> NoPass]

\* lines 92-94: optimizer, scheduler, criterion
TrainSetup ==
    /\ pc = "train_model"
    /\ sched' = 0
    /\ epoch' = 0
    /\ pc' = "loop"
    /\ UNCHANGED <<err, epochs, training, params, output, grad, val_loss, log>>
    /\ UNCHANGED <<encodeVars, splitVars, evalVars>>

\* LoopHead with a convergence check: the loop gives up after the first epoch
LoopHead_EarlyStop ==
    /\ pc = "loop"
    /\ pc' = IF epoch < epochs /\ epoch < 1 THEN "train_mode" ELSE "trained"
    /\ UNCHANGED <<err, trainVars, encodeVars, splitVars, evalVars>>

\* line 96: for epoch in range(epochs); line 111: return model
LoopHead ==
    /\ pc = "loop"
    /\ pc' = IF epoch < epochs THEN "train_mode" ELSE "trained"
    /\ UNCHANGED <<err, trainVars, encodeVars, splitVars, evalVars>>

\* lines 97-98: model.train(); optimizer.zero_grad()
TrainMode ==
    /\ pc = "train_mode"
    /\ training' = TRUE
    /\ grad' = NoLoss
    /\ pc' = "forward"
    /\ UNCHANGED <<err, epochs, epoch, params, sched, output, val_loss, log>>
    /\ UNCHANGED <<encodeVars, splitVars, evalVars>>

\* line 99: output = model(data.x, data.edge_index).squeeze(); BatchNorm1d
\* (line 80) raises in training mode on a batch of a single row
Forward ==
    /\ pc = "forward"
    /\ IF training /\ num_nodes < 2
       THEN /\ err' = "ValueError: Expected more than 1 value per channel"
            /\ pc' = "aborted"
            /\ output' = output
       ELSE /\ output' = [params |-> params, training |-> training]
            /\ pc' = "backward"
            /\ err' = err
    /\ UNCHANGED <<epochs, epoch, training, params, sched, grad, val_loss, log>>
    /\ UNCHANGED <<encodeVars, splitVars, evalVars>>

\* lines 100-101: loss = criterion(output[train_idx], y[train_idx]);
\* loss.backward().  MSELoss over zero rows is nan, not an exception.
Backward ==
    /\ pc = "backward"
    /\ grad' = [loss |-> "train", rows |-> train_idx, of |-> output]
    /\ pc' = "step"
    /\ UNCHANGED <<err, epochs, epoch, training, params, sched, output, val_loss, log>>
    /\ UNCHANGED <<encodeVars, splitVars, evalVars>>

\* line 102: optimizer.step()
OptimizerStep ==
    /\ pc = "step"
    /\ params' = params + 1
    /\ pc' = "sched"
    /\ UNCHANGED <<err, epochs, epoch, training, sched, output, grad, val_loss, log>>
    /\ UNCHANGED <<encodeVars, splitVars, evalVars>>

\* line 103: scheduler.step()
SchedulerStep ==
    /\ pc = "sched"
    /\ sched' = sched + 1
    /\ pc' = "eval_mode"
    /\ UNCHANGED <<err, epochs, epoch, training, params, output, grad, val_loss, log>>
    /\ UNCHANGED <<encodeVars, splitVars, evalVars>>

\* lines 105-107: model.eval(); with torch.no_grad(): val_loss =
\* criterion(output[val_idx], y[val_idx]) -- "output" is the local variable
\* assigned at line 99
ValLoss ==
    /\ pc = "eval_mode"
    /\ training' = FALSE
    /\ val_loss' = [loss |-> "val", rows |-> val_idx, of |-> output]
    /\ pc' = "print"
    /\ UNCHANGED <<err, epochs, epoch, params, sched, output, grad, log>>
    /\ UNCHANGED <<encodeVars, splitVars, evalVars>>

\* line 109: the epoch's line, and the loop's next iteration
PrintEpoch ==
    /\ pc = "print"
    /\ log' = Append(log, [epoch |-> epoch + 1, params |-> params, sched |-> sched,
                           grad |-> grad, val_loss |-> val_loss])
    /\ epoch' = epoch + 1
    /\ pc' = "loop"
    /\ UNCHANGED <<err, epochs, training, params, sched, output, grad, val_loss>>
    /\ UNCHANGED <<encodeVars, splitVars, evalVars>>

(***************************************************************************)
(* evaluate_model.  Predictions and labels are small integers, on which    *)
(* the float operations of the metrics are exact; a metric is nan, inf,    *)
(* or the number num/den, num/sqrt(den) or sqrt(num/den).                  *)
(***************************************************************************)
Vals == {0 - 1, 0, 1}

Value(num, den, root) == [kind |-> "value", num |-> num, den |-> den, sqrt |-> root]
NaNValue == [kind |-> "nan", num |-> 0, den |-> 0, sqrt |-> "none"]
InfValue == [kind |-> "inf", num |-> 0, den |-> 0, sqrt |-> "none"]
NoMetrics == [k \in {} |-> NaNValue]

Sign(x) == IF x > 0 THEN 1 ELSE IF x < 0 THEN 0 - 1 ELSE 0
Abs(x) == IF x < 0 THEN 0 - x ELSE x

RECURSIVE SeqSum(_)
SeqSum(s) == IF s = <<>> THEN 0 ELSE s[1] + SeqSum(Tail(s))

RECURSIVE SeqProd(_)
SeqProd(s) == IF s = <<>> THEN 1 ELSE s[1] * SeqProd(Tail(s))

\* vec[idx]: indexing by an index tensor keeps the order of the index tensor
Take(vec, idx) == [i \in 1..Len(idx) |-> vec[idx[i]]]

\* k * sum(s^2) - sum(s)^2: zero exactly when np.std(s) / np.var(s) is zero
SpreadOf(s) ==
    Len(s) * SeqSum([i \in 1..Len(s) |-> s[i] * s[i]]) - SeqSum(s) * SeqSum(s)

\* lines 123-126: np.mean over the len-1 comparisons of consecutive deltas;
\* the mean of an empty array is nan
DirectionalAccuracy(p, t) ==
    IF Len(p) <= 1 THEN NaNValue
    ELSE Value(Cardinality({i \in 1..(Len(p) - 1) :
                    Sign(p[i + 1] - p[i]) = Sign(t[i + 1] - t[i])}),
               Len(p) - 1, "none")

\* lines 128-129: mean / std of the residual if std != 0 else 0
SharpeRatio(p, t) ==
    LET returns == [i \in 1..Len(p) |-> p[i] - t[i]]
    IN  IF Len(p) = 0 THEN NaNValue
        ELSE IF SpreadOf(returns) # 0
        THEN Value(SeqSum(returns), SpreadOf(returns), "den")
        ELSE Value(0, 1, "none")

\* line 119
MeanAbsoluteError(p, t) ==
    Value(SeqSum([i \in 1..Len(p) |-> Abs(t[i] - p[i])]), Len(p), "none")

\* line 120
RootMeanSquaredError(p, t) ==
    Value(SeqSum([i \in 1..Len(p) |-> (t[i] - p[i]) * (t[i] - p[i])]), Len(p), "all")

\* line 121: a zero true value divides by zero (0/0 is nan, x/0 is inf)
Mape(p, t) ==
    LET all == SeqProd([i \in 1..Len(p) |-> Abs(t[i])])
    IN  IF \E i \in 1..Len(p) : t[i] = 0 /\ p[i] = 0 THEN NaNValue
        ELSE IF \E i \in 1..Len(p) : t[i] = 0 THEN InfValue
        ELSE Value(100 * SeqSum([i \in 1..Len(p) |-> Abs(t[i] - p[i]) * (all \div Abs(t[i]))]),
                   Len(p) * all, "none")

\* line 131: np.corrcoef is nan when either side has no variance
InformationCoefficient(p, t) ==
    IF SpreadOf(p) = 0 \/ SpreadOf(t) = 0 THEN NaNValue
    ELSE Value(Len(p) * SeqSum([i \in 1..Len(p) |-> p[i] * t[i]]) - SeqSum(p) * SeqSum(t),
               SpreadOf(p) * SpreadOf(t), "den")

\* lines 133-135
HitRate(p, t) ==
    Value(100 * Cardinality({i \in 1..Len(p) : Sign(p[i]) = Sign(t[i])}), Len(p), "none")

Times100(v) == IF v.kind = "value" THEN [v EXCEPT !.num = 100 * v.num] ELSE v

\* EvalRows that puts the rows back into ascending order
EvalRows_Sorted(idx) == SortSeq(idx, LAMBDA a, b : a < b)

\* the rows, in order, that evaluate_model indexes predictions and true
\* values with (lines 119-134: predictions[data.test_idx], ...)
EvalRows(idx) == idx

\* lines 137-145
Metrics(pred, truth, idx) ==
    LET p == Take(pred, EvalRows(idx))
        t == Take(truth, EvalRows(idx))
    IN  [mae |-> MeanAbsoluteError(p, t),
         rmse |-> RootMeanSquaredError(p, t),
         mape |-> Mape(p, t),
         directional_accuracy |-> Times100(DirectionalAccuracy(p, t)),
         sharpe_ratio |-> SharpeRatio(p, t),
         ic |-> InformationCoefficient(p, t),
         hit_rate |-> HitRate(p, t)]

\* lines 115-116: model.eval(); predictions = model(data.x, data.edge_index).
\* Only the rows of data.test_idx are ever read.
EvalPredict ==
    /\ pc = "trained"
    /\ training' = FALSE
    /\ \E p \in [Range(test_idx) -> Vals] : predictions' = p
    /\ pc' = "metrics"
    /\ UNCHANGED <<err, epochs, epoch, params, sched, output, grad, val_loss, log>>
    /\ UNCHANGED <<true_values, metrics, encodeVars, splitVars>>

\* lines 117-147: true_values = data.y, the seven metrics, the dictionary
EvalMetrics ==
    /\ pc = "metrics"
    /\ \E t \in [Range(test_idx) -> Vals] :
          /\ true_values' = t
          /\ metrics' = Metrics(predictions, t, test_idx)
    /\ pc' = "done"
    /\ UNCHANGED <<err, predictions, trainVars, encodeVars, splitVars>>

(***************************************************************************)
(* nx_to_pyg_data and the standardisation of data.x and data.y.            *)
(* Attribute values are small integers, which float() keeps as they are.   *)
(***************************************************************************)
NodeNames == <<"A", "B", "C", "D", "E">>

\* the order of the feature columns, lines 25-29
Attrs == <<"volume_weighted_sentiment", "daily_return", "rolling_avg",
           "volatility", "momentum">>

\* attribute dictionaries a node may carry: none, the label only, all five
NodeDataSet ==
    { [a \in {} |-> 0],
      [a \in {"daily_return"} |-> 1],
      [a \in Range(Attrs) |-> CHOOSE k \in 1..Len(Attrs) : Attrs[k] = a] }

SeqsUpTo(S, k) == UNION {[1..j -> S] : j \in 0..k}

\* graphs as networkx hands them out: nodes in enumeration order, the
\* attribute dictionary of each node, edges between nodes of the graph
Graphs ==
    UNION { { [nodes |-> SubSeq(NodeNames, 1, n), data |-> d, edges |-> e] :
                d \in [Range(SubSeq(NodeNames, 1, n)) -> NodeDataSet],
                e \in SeqsUpTo(Range(SubSeq(NodeNames, 1, n)) \X Range(SubSeq(NodeNames, 1, n)),
                               MaxEdges) } :
            n \in 0..MaxNodes }

EmptyGraph == [nodes |-> <<>>, data |-> <<>>, edges |-> <<>>]

\* data.get(key, 0)
Get(d, key) == IF key \in DOMAIN d THEN d[key] ELSE 0

\* lines 24-30
FeatureRow(d) == [c \in 1..Len(Attrs) |-> Get(d, Attrs[c])]

\* lines 22-33: one iteration of the loop over graph.nodes(data=True)
EncodeNode ==
    /\ pc = "nx_to_pyg_data"
    /\ Len(node_features) < Len(graph.nodes)
    /\ LET i    == Len(node_features)
           node == graph.nodes[i + 1]
           d    == graph.data[node]
       IN  /\ node_features' = Append(node_features, FeatureRow(d))
           /\ node_labels' = Append(node_labels, Get(d, "daily_return"))
           /\ node_mapping' = [x \in DOMAIN node_mapping \cup {node} |->
                                  IF x = node THEN i ELSE node_mapping[x]]
    /\ UNCHANGED <<pc, err, graph, edge_index, data_x, data_y>>
    /\ UNCHANGED <<splitVars, trainVars, evalVars>>

\* EncodeEdge with the endpoints looked up the wrong way round
EncodeEdge_Swapped ==
    /\ pc = "nx_to_pyg_data"
    /\ Len(node_features) = Len(graph.nodes)
    /\ Len(edge_index) < Len(graph.edges)
    /\ LET e == graph.edges[Len(edge_index) + 1]
       IN  edge_index' = Append(edge_index, <<node_mapping[e[2]], node_mapping[e[1]]>>)
    /\ UNCHANGED <<pc, err, graph, node_features, node_labels, node_mapping, data_x, data_y>>
    /\ UNCHANGED <<splitVars, trainVars, evalVars>>

\* lines 37-38: one iteration of the loop over graph.edges()
EncodeEdge ==
    /\ pc = "nx_to_pyg_data"
    /\ Len(node_features) = Len(graph.nodes)
    /\ Len(edge_index) < Len(graph.edges)
    /\ LET e == graph.edges[Len(edge_index) + 1]
       IN  edge_index' = Append(edge_index, <<node_mapping[e[1]], node_mapping[e[2]]>>)
    /\ UNCHANGED <<pc, err, graph, node_features, node_labels, node_mapping, data_x, data_y>>
    /\ UNCHANGED <<splitVars, trainVars, evalVars>>

\* torch.tensor(edge_index).t(): the two rows of a list of pairs; an empty
\* list stays an empty one-dimensional tensor
Transpose(pairs) ==
    IF pairs = <<>> THEN <<>>
    ELSE <<[k \in 1..Len(pairs) |-> pairs[k][1]], [k \in 1..Len(pairs) |-> pairs[k][2]]>>

\* lines 40-46: the tensors and the Data object
BuildData ==
    /\ pc = "nx_to_pyg_data"
    /\ Len(node_features) = Len(graph.nodes)
    /\ Len(edge_index) = Len(graph.edges)
    /\ edge_index' = Transpose(edge_index)
    /\ data_x' = node_features
    /\ data_y' = node_labels
    /\ pc' = "scale_x"
    /\ UNCHANGED <<err, graph, node_features, node_labels, node_mapping>>
    /\ UNCHANGED <<splitVars, trainVars, evalVars>>

\* (v - mean) / scale for the values v of a column: the k-th value is
\* (n * v[k] - sum) / (n * scale); zero when the column is constant
Centered(col, k) == Len(col) * col[k] - SeqSum(col)

\* StandardScaler.fit_transform on one column: the population standard
\* deviation, and a scale of 1 where it is zero
ScaleColumn(col) ==
    [k \in 1..Len(col) |->
        IF SpreadOf(col) = 0 THEN Value(0, 1, "none")
        ELSE Value(Centered(col, k), SpreadOf(col), "std")]

\* (y - y.mean()) / y.std(): torch's std is the sample standard deviation,
\* nan for a single value; a zero numerator over a zero std is nan
ScaleLabel(col) ==
    [k \in 1..Len(col) |->
        IF Len(col) < 2 \/ SpreadOf(col) = 0 THEN NaNValue
        ELSE Value(Centered(col, k), SpreadOf(col), "sample std")]

ColumnOf(x, c) == [k \in 1..Len(x) |-> x[k][c]]

\* lines 49-50: fit_transform rejects the tensor of a graph without nodes
ScaleFeatures ==
    /\ pc = "scale_x"
    /\ IF Len(data_x) = 0
       THEN /\ err' = "ValueError: Expected 2D array"
            /\ pc' = "aborted"
            /\ data_x' = data_x
       ELSE /\ data_x' = [k \in 1..Len(data_x) |->
                             [c \in 1..Len(Attrs) |-> ScaleColumn(ColumnOf(data_x, c))[k]]]
            /\ pc' = "scale_y"
            /\ err' = err
    /\ UNCHANGED <<graph, node_features, node_labels, node_mapping, edge_index, data_y>>
    /\ UNCHANGED <<splitVars, trainVars, evalVars>>

\* line 51
ScaleLabels ==
    /\ pc = "scale_y"
    /\ data_y' = ScaleLabel(data_y)
    /\ pc' = "encoded"
    /\ UNCHANGED <<err, graph, node_features, node_labels, node_mapping, edge_index, data_x>>
    /\ UNCHANGED <<splitVars, trainVars, evalVars>>

(***************************************************************************)
(* Specifications                                                          *)
(***************************************************************************)
InitEncodeVars ==
    /\ node_features = <<>> /\ node_labels = <<>> /\ node_mapping = <<>>
    /\ edge_index = <<>> /\ data_x = <<>> /\ data_y = <<>>

InitTrainVars ==
    /\ epoch = 0 /\ training = TRUE /\ params = 0 /\ sched = 0
    /\ output = NoPass /\ grad = NoLoss /\ val_loss = NoLoss /\ log = <<>>

InitEvalVars == predictions = <<>> /\ true_values = <<>> /\ metrics = NoMetrics

\* the script from line 54 on: split_data, train_model, evaluate_model
Init ==
    /\ pc = "split_data" /\ err = None
    /\ graph = EmptyGraph /\ InitEncodeVars
    /\ num_nodes \in 1..MaxN
    /\ \E r \in RatioPairs : train_ratio = r[1] /\ val_ratio = r[2]
    /\ train_idx = <<>> /\ val_idx = <<>> /\ test_idx = <<>>
    /\ epochs \in 0..MaxEpochs
    /\ InitTrainVars /\ InitEvalVars

TrainNext ==
    \/ TrainSetup \/ LoopHead \/ TrainMode \/ Forward \/ Backward
    \/ OptimizerStep \/ SchedulerStep \/ ValLoss \/ PrintEpoch

Next == SplitFirst \/ SplitSecond \/ TrainNext \/ EvalPredict \/ EvalMetrics

Spec == Init /\ [][Next]_vars

\* train_model runs each statement when the one before it has finished
FairSpec == Spec /\ WF_vars(TrainNext)

\* the script up to line 51: a graph, its encoding and the standardisation
InitEncode ==
    /\ pc = "nx_to_pyg_data" /\ err = None
    /\ graph \in Graphs /\ InitEncodeVars
    /\ num_nodes = 0 /\ train_ratio = F0_7 /\ val_ratio = F0_15
    /\ train_idx = <<>> /\ val_idx = <<>> /\ test_idx = <<>>
    /\ epochs = 0
    /\ InitTrainVars /\ InitEvalVars

EncodeNext == EncodeNode \/ EncodeEdge \/ BuildData \/ ScaleFeatures \/ ScaleLabels

SpecEncode == InitEncode /\ [][EncodeNext]_vars

\* three index tensors over n rows, each row in at most one of them
Splits(n) ==
    { s \in SeqsUpTo(0..(n - 1), n) \X SeqsUpTo(0..(n - 1), n) \X SeqsUpTo(0..(n - 1), n) :
        /\ Len(s[1]) + Len(s[2]) + Len(s[3]) = n
        /\ Range(s[1]) \cup Range(s[2]) \cup Range(s[3]) = 0..(n - 1) }

\* train_model called on a Data object whose index tensors are any split
InitTrain ==
    /\ pc = "train_model" /\ err = None
    /\ graph = EmptyGraph /\ InitEncodeVars
    /\ num_nodes \in 1..MaxTrainN
    /\ train_ratio = F0_7 /\ val_ratio = F0_15
    /\ \E s \in Splits(num_nodes) : train_idx = s[1] /\ val_idx = s[2] /\ test_idx = s[3]
    /\ epochs \in 0..MaxEpochs
    /\ InitTrainVars /\ InitEvalVars

SpecTrain == InitTrain /\ [][TrainNext]_vars

(***************************************************************************)
(* Properties                                                              *)
(***************************************************************************)
SplitFinished == pc \notin {"split_data", "split_val"}
SplitReturned == SplitFinished /\ pc # "aborted"

\* train_ratio + val_ratio < 1, compared exactly
RatiosBelowOne == FloatLT(val_ratio, OneMinusExact(train_ratio))

IsPartition ==
    /\ Len(train_idx) + Len(val_idx) + Len(test_idx) = num_nodes
    /\ Range(train_idx) \cup Range(val_idx) \cup Range(test_idx) = 0..(num_nodes - 1)
    /\ Range(train_idx) \cap Range(val_idx) = {}
    /\ Range(train_idx) \cap Range(test_idx) = {}
    /\ Range(val_idx) \cap Range(test_idx) = {}

\* C1: for n >= 1 and ratios in (0,1) that sum to less than 1, split_data
\* returns, and what it returns is a partition of 0..n-1 into three
\* pairwise disjoint index sets.
C1_SplitReturnsPartition ==
    (SplitFinished /\ RatiosBelowOne) => (err = None /\ IsPartition)

\* C2: when split_data returns, train holds floor(train_ratio * n) indices,
\* validation min(int(val_ratio * n), n - |train|), test all the others.
C2_SplitSizes ==
    SplitReturned =>
        /\ Len(train_idx) = Trunc(MulInt(train_ratio, num_nodes))
        /\ Len(val_idx) = Min(ValCount(val_ratio, num_nodes), num_nodes - Len(train_idx))
        /\ Len(test_idx) = num_nodes - Len(train_idx) - Len(val_idx)

\* C3: when int(val_ratio * n) is at least the number of indices left after
\* the train assignment, split_data does not fail, validation is the whole
\* remaining pool, test is what is left (nothing), and no index is repeated.
C3_ValClippedToPool ==
    (/\ SplitFinished
     /\ train_idx # <<>>
     /\ ValCount(val_ratio, num_nodes) >= num_nodes - Len(train_idx))
        => (/\ err = None
            /\ Len(val_idx) = num_nodes - Len(train_idx)
            /\ IsPartition)

\* the pairs emitted so far, before and after the transposition of line 40
EmittedPairs ==
    IF pc = "nx_to_pyg_data" THEN edge_index
    ELSE IF edge_index = <<>> THEN <<>>
    ELSE [k \in 1..Len(edge_index[1]) |-> <<edge_index[1][k], edge_index[2][k]>>]

Encoded == pc \in {"scale_x", "scale_y", "encoded"}

\* C4: the feature matrix has one row and the label vector one entry per
\* node; node_mapping sends each node to the row its features and label
\* were appended at; the pair emitted for an edge (u,v) is
\* (node_mapping[u], node_mapping[v]), both valid rows.
C4_EncodingConsistent ==
    LET n == Len(graph.nodes)
    IN  /\ Encoded => /\ Len(data_x) = n
                      /\ Len(data_y) = n
                      /\ \A k \in 1..n : Len(data_x[k]) = Len(Attrs)
                      /\ Len(EmittedPairs) = Len(graph.edges)
        /\ \A node \in DOMAIN node_mapping :
              /\ node_mapping[node] \in 0..(n - 1)
              /\ graph.nodes[node_mapping[node] + 1] = node
              /\ node_features[node_mapping[node] + 1] = FeatureRow(graph.data[node])
              /\ node_labels[node_mapping[node] + 1] = Get(graph.data[node], "daily_return")
        /\ \A k \in 1..Len(EmittedPairs) :
              /\ EmittedPairs[k] = <<node_mapping[graph.edges[k][1]],
                                     node_mapping[graph.edges[k][2]]>>
              /\ EmittedPairs[k][1] \in 0..(n - 1)
              /\ EmittedPairs[k][2] \in 0..(n - 1)

C4_Witness ==
    /\ pc = "encoded"
    /\ Len(graph.nodes) >= 2
    /\ \E k \in 1..Len(graph.edges) : graph.edges[k][1] # graph.edges[k][2]

\* C5: the validation loss printed for an epoch comes from a forward pass
\* made after that epoch's optimizer step, in inference mode, over the
\* validation rows; and only the train loss is ever back-propagated.
C5_ValLossAfterUpdate ==
    \A k \in 1..Len(log) :
        /\ log[k].val_loss.of.params = log[k].params
        /\ log[k].val_loss.of.training = FALSE
        /\ log[k].val_loss.rows = val_idx
        /\ log[k].grad.loss = "train"

TrainFinished == pc \in {"trained", "metrics", "done"}
InTraining ==
    pc \in {"loop", "train_mode", "forward", "backward", "step", "sched",
            "eval_mode", "print"}

\* C6: once entered, train_model reaches Complete; it has then made exactly
\* `epochs` optimizer steps and `epochs` scheduler steps, the k-th of each in
\* epoch k; the loop is left only when every epoch has run; with epochs = 0
\* the parameters are those of the initialisation.
C6_FixedEpochBudget ==
    /\ (pc = "train_model") ~> (pc = "trained")
    /\ [](TrainFinished =>
            /\ params = epochs
            /\ sched = epochs
            /\ Len(log) = epochs
            /\ \A k \in 1..Len(log) :
                  log[k].epoch = k /\ log[k].params = k /\ log[k].sched = k
            /\ (epochs = 0 => params = 0))
    /\ [](InTraining =>
            /\ epoch <= sched /\ sched <= params /\ params <= epoch + 1
            /\ epoch <= epochs)
    /\ [][(pc = "loop" /\ pc' = "trained") => epoch = epochs]_vars

C6_Witness == pc = "trained" /\ epochs = 2 /\ params = 2 /\ sched = 2

IsZero(v) == v.kind = "value" /\ v.num = 0

\* C7: with a single test row evaluate_model returns 0 both for the
\* directional accuracy and for the Sharpe ratio.
C7_SingleRowFallbacks ==
    (pc = "done" /\ Len(test_idx) = 1) =>
        /\ IsZero(metrics.directional_accuracy)
        /\ IsZero(metrics.sharpe_ratio)

\* C8: a feature column, or the label vector, whose standard deviation is 0
\* is standardised with scale 1: all its values become 0, none nan.
C8_ZeroStdScaleOne ==
    pc = "encoded" =>
        /\ \A c \in 1..Len(Attrs) :
              SpreadOf(ColumnOf(node_features, c)) = 0 =>
                  \A k \in 1..Len(data_x) : IsZero(data_x[k][c])
        /\ (Len(node_labels) >= 2 /\ SpreadOf(node_labels) = 0) =>
              \A k \in 1..Len(data_y) : IsZero(data_y[k])

\* the directional accuracy (in percent) over the rows taken in the order
\* rows
DirectionalOver(rows) ==
    IF Len(rows) <= 1 THEN NaNValue
    ELSE Value(100 * Cardinality({i \in 1..(Len(rows) - 1) :
                    Sign(predictions[rows[i + 1]] - predictions[rows[i]])
                        = Sign(true_values[rows[i + 1]] - true_values[rows[i]])}),
               Len(rows) - 1, "none")

\* C9 as stated: the consecutive deltas of the directional accuracy are
\* formed over the test rows in ascending row order.
C9_AscendingRowOrder ==
    pc = "done" =>
        metrics.directional_accuracy
            = DirectionalOver(SortSeq(test_idx, LAMBDA a, b : a < b))

\* C9 amended: the consecutive deltas of the directional accuracy are formed
\* over the test rows in the order of data.test_idx, the shuffled order in
\* which split_data returned them.
C9_PartitionerOrder ==
    pc = "done" => metrics.directional_accuracy = DirectionalOver(test_idx)

C9_Witness ==
    /\ pc = "done"
    /\ \E i \in 1..(Len(test_idx) - 1) : test_idx[i] > test_idx[i + 1]
    /\ DirectionalOver(test_idx) # DirectionalOver(SortSeq(test_idx, LAMBDA a, b : a < b))

\* C10: with an empty train split and at least one epoch to run, train_model
\* makes no parameter update and does not reach Complete.
C10_EmptyTrainSplitFails ==
    (train_idx = <<>> /\ epochs >= 1) => (params = 0 /\ pc # "trained")

====
